---------------------------- MODULE Spec2Model ----------------------------
(* A model of mikewheel/ds4300-final-project:                              *)
(*   - the streaming page scanner WikipediaArchiveSearcher.MWParser and    *)
(*     retrieve_article_xml of src/wiki/reader.py,                         *)
(*   - the bounded breadth-first crawl of src/search/__main__.py together  *)
(*     with ArticleNode of src/data_stores/neo4j/article_node.py.          *)
EXTENDS Integers, Sequences, FiniteSets, TLC

VARIABLES
    (* ---- MWParser fed with one decompressed block ---- *)
    parser,       \* the MWParser object: true_id, observed_id, lines, curr_tag_id, final_lines
    rawdata,      \* the block handed to feed(), as the events HTMLParser.goahead dispatches
    pos,          \* index in rawdata of the next event to dispatch
    frags,        \* the pieces (documents, fragments) the block of a scanner run was concatenated from
    (* ---- WikipediaArchiveSearcher ---- *)
    index,        \* rows of the pages table, in row order: <<start, page_id, title, end>>
    archive,      \* the bytes of the multistream file
    retrieved_pages, \* self.retrieved_pages: title -> page text
    outcome,      \* how the last retrieve_article_xml call of the retrieval run ended
    span,         \* bytes_of_interest of its last extract_indexed_range call
    calls,        \* number of retrieve_article_xml calls the retrieval run made
    last_call,    \* history: the title of its last call and what that call did
    (* ---- the crawl of search/__main__.py ---- *)
    seeds,        \* SEED_LIST[0:2], the slice the name artist is bound to
    graph,        \* title -> outgoing_links the document parser gives that article
    bound,        \* the acceptance bound compared with counter
    cache,        \* ArticleCache: title -> None | Some(TRUE) | Some(FALSE)
    nodes,        \* the nodes stored in the graph store
    edges,        \* the LINKS TO relationships stored, <<source, dest>>
    article,      \* ArticleNode.article, the class attribute
    search_queue,
    counter,
    continue_search,
    current_article_node,
    links,        \* the list the for loop iterates over
    li,           \* index in links of the next linked_article
    child_node,   \* None while the name is unbound
    pc,           \* "seed" before line 19, "failed" (line 20 or 21 raised), "loop" at the while test,
                  \* "links" inside the for loop, "done", "crashed" (NameError at line 69)
    popped,       \* history: the nodes popped, in order
    enqueued,     \* history: the nodes appended to search_queue, in order
    examined,     \* history: <<node, link>> for every linked_article processed
    extracted,    \* history: the titles handed to retrieve_article_xml by the loop
    loop_states,  \* history: the program states in which the while test passed
    (* ---- the index builder of data_stores/sqlite/__init__.py ---- *)
    listing,      \* the lines of the byte:id:title listing, each a sequence of characters
    row_values,   \* the rows built so far
    byte_dict,    \* first_byte -> last_byte
    articles,     \* the rows written to the articles table; None before the write
    bpc,          \* "parse", "rows", "done"
    (* ---- which entry point runs ---- *)
    running

scanVars == <<parser, rawdata, pos, frags>>
retrVars == <<index, archive, retrieved_pages, outcome, span, calls, last_call>>
crawlVars == <<seeds, graph, bound, cache, nodes, edges, article, search_queue, counter,
               continue_search, current_article_node, links, li, child_node, pc,
               popped, enqueued, examined, extracted, loop_states>>
idxVars == <<listing, row_values, byte_dict, articles, bpc>>
vars == <<parser, rawdata, pos, frags, index, archive, retrieved_pages, outcome, span, calls,
          last_call,
          seeds, graph, bound, cache, nodes, edges, article, search_queue, counter,
          continue_search, current_article_node, links, li, child_node, pc,
          popped, enqueued, examined, extracted, loop_states,
          listing, row_values, byte_dict, articles, bpc, running>>

(***************************************************************************)
(* Python values                                                           *)
(***************************************************************************)
\* Python's None, and a str value s; kept apart so that str(None) is a conversion.
None == [some |-> FALSE]
Some(s) == [some |-> TRUE, val |-> s]

\* str(x) for x a str or None: str(None) is the text "None".
Str(x) == IF x = None THEN "None" ELSE x.val

\* "".join(list_of_str)
RECURSIVE Join(_)
Join(ss) == IF ss = <<>> THEN "" ELSE Head(ss) \o Join(Tail(ss))

(***************************************************************************)
(* Events of the block: what HTMLParser.goahead hands to the handlers      *)
(***************************************************************************)
StartEv(tag, attrs) == [kind |-> "start", tag |-> tag, attrs |-> attrs]
DataEv(data) == [kind |-> "data", data |-> data]
EndEv(tag) == [kind |-> "end", tag |-> tag]

(***************************************************************************)
(* MWParser (src/wiki/reader.py)                                           *)
(***************************************************************************)
\* MWParser.__init__
NewParser(id) ==
    [true_id |-> id, observed_id |-> None, lines |-> <<>>,
     curr_tag_id |-> FALSE, final_lines |-> <<>>]

\* the f' {tup[0]}="{tup[1]}"' pieces of a start tag, in the order of attrs
RECURSIVE AttrText(_)
AttrText(attrs) ==
    IF attrs = <<>> THEN ""
    ELSE " " \o Head(attrs)[1] \o "=\"" \o Head(attrs)[2] \o "\"" \o AttrText(Tail(attrs))

\* "".join(line_components) of handle_starttag
StartTagLine(tag, attrs) == "<" \o tag \o AttrText(attrs) \o ">"

\* "".join(["</", tag, ">"]) of handle_endtag
EndTagLine(tag) == "</" \o tag \o ">"

\* MWParser.handle_starttag
handle_starttag(p, tag, attrs) ==
    IF p.final_lines # <<>> THEN p
    ELSE LET q == IF tag = "page"
                  THEN [p EXCEPT !.observed_id = None, !.lines = <<>>, !.curr_tag_id = FALSE]
                  ELSE IF tag = "id" THEN [p EXCEPT !.curr_tag_id = TRUE]
                  ELSE p
         IN  [q EXCEPT !.lines = Append(q.lines, StartTagLine(tag, attrs))]

\* A plausible slip: the "no identifier recorded yet" test is missing.
handle_data_overwrites_id(p, data) ==
    IF p.final_lines # <<>> THEN p
    ELSE LET q == [p EXCEPT !.lines = Append(p.lines, data)]
         IN  IF q.curr_tag_id
             THEN [q EXCEPT !.observed_id = Some(data)]
             ELSE q

\* A plausible slip: the "already found" guard is missing.
handle_data_no_guard(p, data) ==
    LET q == [p EXCEPT !.lines = Append(p.lines, data)]
    IN  IF q.curr_tag_id /\ q.observed_id = None
        THEN [q EXCEPT !.observed_id = Some(data)]
        ELSE q

\* MWParser.handle_data
handle_data(p, data) ==
    IF p.final_lines # <<>> THEN p
    ELSE LET q == [p EXCEPT !.lines = Append(p.lines, data)]
         IN  IF q.curr_tag_id /\ q.observed_id = None
             THEN [q EXCEPT !.observed_id = Some(data)]
             ELSE q

\* MWParser.handle_endtag
handle_endtag(p, tag) ==
    IF p.final_lines # <<>> THEN p
    ELSE LET q == [p EXCEPT !.lines = Append(p.lines, EndTagLine(tag))]
             r == IF tag = "id" THEN [q EXCEPT !.curr_tag_id = FALSE] ELSE q
         IN  IF tag = "page" /\ Str(r.observed_id) = Str(Some(r.true_id))
             THEN [r EXCEPT !.final_lines = r.lines]
             ELSE r

\* One event dispatched to its handler.
Dispatch(p, e) ==
    IF e.kind = "start" THEN handle_starttag(p, e.tag, e.attrs)
    ELSE IF e.kind = "data" THEN handle_data(p, e.data)
    ELSE handle_endtag(p, e.tag)

\* MWParser.feed: every event of the block, in order.
RECURSIVE feed(_, _)
feed(p, evs) == IF evs = <<>> THEN p ELSE feed(Dispatch(p, Head(evs)), Tail(evs))

(***************************************************************************)
(* Blocks: what a decompressed span can hold                               *)
(***************************************************************************)
\* Page identifiers that occur in the blocks.
Ids == {"1", "2", "3"}

\* Most documents concatenated into a well-formed block.
MaxDocs == 3
\* Most pieces concatenated into an arbitrary block.
MaxFrags == 2

\* <page><id>i</id></page>
DocPlain(i) ==
    <<StartEv("page", <<>>), StartEv("id", <<>>), DataEv(i), EndEv("id"), EndEv("page")>>

\* A page of the export format: title, id, then a revision with its own id and text.
DocFull(i, r) ==
    <<StartEv("page", <<>>),
      StartEv("title", <<>>), DataEv("T" \o i), EndEv("title"),
      StartEv("id", <<>>), DataEv(i), EndEv("id"),
      StartEv("revision", <<>>),
      StartEv("id", <<>>), DataEv(r), EndEv("id"),
      StartEv("text", << <<"bytes", "7">>, <<"xml:space", "preserve">> >>),
      DataEv("x" \o i), EndEv("text"),
      EndEv("revision"), EndEv("page")>>

\* A complete page whose revision (with the revision's id) precedes the page's own id.
DocNested(i, r) ==
    <<StartEv("page", <<>>),
      StartEv("revision", <<>>), StartEv("id", <<>>), DataEv(r), EndEv("id"), EndEv("revision"),
      StartEv("id", <<>>), DataEv(i), EndEv("id"),
      EndEv("page")>>

\* The tail of a page whose beginning lies in the preceding block.
TailFrag(i) ==
    <<EndEv("title"), StartEv("id", <<>>), DataEv(i), EndEv("id"), EndEv("page")>>

\* A stray document-boundary end tag.
StrayEnd == <<EndEv("page")>>

\* A page cut off by the end of the block.
Unterminated(i) ==
    <<StartEv("page", <<>>), StartEv("id", <<>>), DataEv(i), EndEv("id"),
      StartEv("revision", <<>>)>>

Piece(kind, id, rev) == [kind |-> kind, id |-> id, rev |-> rev]

\* The complete documents: a page from its start tag to its end tag, with the page's id
\* alone, with the page's id before the revision's, or with the revision's id first.
CompleteDocs ==
    {Piece("plain", i, i) : i \in Ids}
        \cup {Piece("full", i, r) : i \in Ids, r \in Ids}
        \cup {f \in {Piece("nested", i, r) : i \in Ids, r \in Ids} : f.id # f.rev}

\* Everything a block is concatenated from.
Pieces ==
    CompleteDocs
        \cup {Piece("tail", i, i) : i \in Ids}
        \cup {Piece("stray", "1", "1")}
        \cup {Piece("unterminated", i, i) : i \in Ids}

Events(f) ==
    CASE f.kind = "plain" -> DocPlain(f.id)
      [] f.kind = "full" -> DocFull(f.id, f.rev)
      [] f.kind = "nested" -> DocNested(f.id, f.rev)
      [] f.kind = "tail" -> TailFrag(f.id)
      [] f.kind = "stray" -> StrayEnd
      [] f.kind = "unterminated" -> Unterminated(f.id)

RECURSIVE Concat(_)
Concat(fs) == IF fs = <<>> THEN <<>> ELSE Events(Head(fs)) \o Concat(Tail(fs))

SeqsUpTo(S, n) == UNION {[1..m -> S] : m \in 0..n}

DistinctIds(fs) == \A a, b \in 1..Len(fs) : a # b => fs[a].id # fs[b].id

\* Blocks of complete pages with pairwise distinct identifiers.
WellFormedBlocks == {fs \in SeqsUpTo(CompleteDocs, MaxDocs) : Len(fs) > 0 /\ DistinctIds(fs)}

\* Blocks of arbitrary pieces.
ArbitraryBlocks == SeqsUpTo(Pieces, MaxFrags)

(***************************************************************************)
(* The archive and its index                                               *)
(***************************************************************************)
\* Titles asked for; "C" never has an index row.
Titles == {"A", "B", "C"}
IndexedTitles == {"A", "B"}

\* Bytes one compressed stream occupies in the archive.
StreamLen == 2
\* Most rows in the pages table.
MaxRows == 2
\* Most retrieve_article_xml calls in a run.
MaxCalls == 2

\* The blocks a stream decompresses to.
StreamBlocks ==
    { <<Piece("plain", "1", "1"), Piece("plain", "2", "2")>>,
      <<Piece("full", "3", "1")>> }

\* Byte o (1-based) of stream s, which decompresses to block.
Byte(s, o, block) == [stream |-> s, off |-> o, block |-> block]

\* The file: the bytes of stream 1, then those of stream 2, ...
ArchiveOf(blocks) ==
    [j \in 1..(Len(blocks) * StreamLen) |->
        Byte(((j - 1) \div StreamLen) + 1, ((j - 1) % StreamLen) + 1,
             blocks[((j - 1) \div StreamLen) + 1])]

\* The archive holds two streams.
Archives == {ArchiveOf(<<b1, b2>>) : b1 \in StreamBlocks, b2 \in StreamBlocks}

\* The offsets a row carries: a stream's first byte and the next stream's first byte,
\* or -1 for "to the end of the file".
OffsetPairs ==
    { <<0, StreamLen>>, <<StreamLen, 2 * StreamLen>>, <<StreamLen, -1>>, <<0, -1>> }

\* Page ids the index names.
RowIds == {"1", "3"}

Rows == {<<o[1], id, t, o[2]>> : o \in OffsetPairs, id \in RowIds, t \in IndexedTitles}

Indexes == SeqsUpTo(Rows, MaxRows)

\* file.read(n) at cursor c of a file of bytes f opened "rb": the bytes read and the new
\* cursor. n = -1 reads to the end of the file; any other negative n raises ValueError
\* ("read length must be non-negative or -1") and reads nothing.
FileRead(f, c, n) ==
    IF n < -1 THEN [ok |-> FALSE, data |-> <<>>, cursor |-> c]
    ELSE LET last == IF n = -1 \/ c + n > Len(f) THEN Len(f) ELSE c + n
         IN  [ok |-> TRUE, data |-> SubSeq(f, c + 1, last), cursor |-> last]

\* The texts a data event can be cut to when the text of a block ends inside it.
DataCuts(d) == {h \in {"T", "x"} : \E i \in Ids : d = h \o i}

\* The texts a stream cut short can decompress to: the compression blocks complete in
\* the data, which is a beginning of the stream's text, from nothing up to all of it
\* (only the stream trailer missing); where the blocks end is the compressor's choice.
CutTexts(evs) ==
    {SubSeq(evs, 1, k) : k \in 0..Len(evs)}
        \cup UNION {{Append(SubSeq(evs, 1, k - 1), DataEv(h)) : h \in DataCuts(evs[k].data)} :
                       k \in {j \in 1..Len(evs) : evs[j].kind = "data"}}

\* bz2.BZ2Decompressor().decompress(data).decode(), as the set of results it can have:
\* no text for no data; OSError for data that starts inside a stream; the text of the
\* first stream when data holds all of its bytes (bytes after it are left unused); a
\* beginning of that text when the stream is cut short.
Decompress(data) ==
    IF data = <<>> THEN {[ok |-> TRUE, events |-> <<>>]}
    ELSE IF data[1].off # 1 THEN {[ok |-> FALSE, events |-> <<>>]}
    ELSE IF Len(data) >= StreamLen THEN {[ok |-> TRUE, events |-> Concat(data[1].block)]}
    ELSE {[ok |-> TRUE, events |-> t] : t \in CutTexts(Concat(data[1].block))}

\* WikipediaArchiveSearcher.extract_indexed_range: whether a read raised ValueError, the
\* span handed to the decompressor and what it can decompress to
extract_indexed_range(f, start_index, end_index) ==
    LET skipped == FileRead(f, 0, start_index)
        wanted == FileRead(f, skipped.cursor, end_index - start_index)
        bytes_of_interest == wanted.data
    IN  IF ~skipped.ok \/ ~wanted.ok
        THEN [raised |-> TRUE, span |-> <<>>, texts |-> {}]
        ELSE [raised |-> FALSE, span |-> bytes_of_interest, texts |-> Decompress(bytes_of_interest)]

\* A plausible slip: the WHERE clause is left out.
SelectByTitle_no_where(ix, title) == ix

\* cursor.execute('SELECT * FROM pages WHERE title == ?'); cursor.fetchall()
SelectByTitle(ix, title) == SelectSeq(ix, LAMBDA r : r[3] = title)

\* start_index, page_id, title, end_index = results[0]
first_match(results) == results[1]

\* A plausible slip: the scanner object of the previous call is kept and re-targeted.
new_scanner_keeps_previous(previous, page_id) == [previous EXCEPT !.true_id = page_id]

\* parser = self.MWParser(id=page_id): a new object, whatever the previous one held
new_scanner(previous, page_id) == NewParser(page_id)

NoOutcome == [kind |-> "none"]
Raised(exc, arg) == [kind |-> "raise", exc |-> exc, arg |-> arg]
Returned(v) == [kind |-> "return", value |-> v]

\* What a call did: whether it read from the archive file, whether it handed a span to
\* the decompressor, whether it ran a scan.
NoCall == [title |-> None, read |-> FALSE, decompressed |-> FALSE, scanned |-> FALSE]
Call(title, read, decompressed, scanned) ==
    [title |-> Some(title), read |-> read, decompressed |-> decompressed, scanned |-> scanned]

(***************************************************************************)
(* Idle parts                                                              *)
(***************************************************************************)
ScanIdle ==
    /\ frags = <<>>
    /\ rawdata = <<>>
    /\ pos = 1
    /\ parser = NewParser("")

RetrIdle ==
    /\ index = <<>>
    /\ archive = <<>>
    /\ retrieved_pages = [t \in {} |-> ""]
    /\ outcome = NoOutcome
    /\ span = <<>>
    /\ calls = 0
    /\ last_call = NoCall

CrawlIdle ==
    /\ seeds = <<>>
    /\ graph = <<>>
    /\ bound = 0
    /\ cache = <<>>
    /\ nodes = {}
    /\ edges = {}
    /\ article = None
    /\ search_queue = <<>>
    /\ counter = 0
    /\ continue_search = FALSE
    /\ current_article_node = None
    /\ links = <<>>
    /\ li = 1
    /\ child_node = None
    /\ pc = "off"
    /\ popped = <<>>
    /\ enqueued = <<>>
    /\ examined = <<>>
    /\ extracted = <<>>
    /\ loop_states = {}

IndexIdle ==
    /\ listing = <<>>
    /\ row_values = <<>>
    /\ byte_dict = <<>>
    /\ articles = None
    /\ bpc = "off"

(***************************************************************************)
(* The scanner run over one block                                          *)
(***************************************************************************)
ScanInit ==
    /\ running = "scan"
    /\ frags \in WellFormedBlocks \cup ArbitraryBlocks
    /\ rawdata = Concat(frags)
    /\ pos = 1
    /\ \E id \in Ids : parser = NewParser(id)
    /\ RetrIdle
    /\ CrawlIdle
    /\ IndexIdle

HandleStartTag ==
    /\ running = "scan"
    /\ pos <= Len(rawdata)
    /\ rawdata[pos].kind = "start"
    /\ parser' = handle_starttag(parser, rawdata[pos].tag, rawdata[pos].attrs)
    /\ pos' = pos + 1
    /\ UNCHANGED <<rawdata, frags, running>>
    /\ UNCHANGED retrVars
    /\ UNCHANGED crawlVars
    /\ UNCHANGED idxVars

HandleData ==
    /\ running = "scan"
    /\ pos <= Len(rawdata)
    /\ rawdata[pos].kind = "data"
    /\ parser' = handle_data(parser, rawdata[pos].data)
    /\ pos' = pos + 1
    /\ UNCHANGED <<rawdata, frags, running>>
    /\ UNCHANGED retrVars
    /\ UNCHANGED crawlVars
    /\ UNCHANGED idxVars

HandleEndTag ==
    /\ running = "scan"
    /\ pos <= Len(rawdata)
    /\ rawdata[pos].kind = "end"
    /\ parser' = handle_endtag(parser, rawdata[pos].tag)
    /\ pos' = pos + 1
    /\ UNCHANGED <<rawdata, frags, running>>
    /\ UNCHANGED retrVars
    /\ UNCHANGED crawlVars
    /\ UNCHANGED idxVars

ScanNext == HandleStartTag \/ HandleData \/ HandleEndTag

SpecScan == ScanInit /\ [][ScanNext]_vars

ScanEnded == pos > Len(rawdata)

(***************************************************************************)
(* retrieve_article_xml                                                    *)
(***************************************************************************)
RetrInit ==
    /\ running = "retrieve"
    /\ archive \in Archives
    /\ index \in Indexes
    /\ retrieved_pages = [t \in {} |-> ""]
    /\ outcome = NoOutcome
    /\ span = <<>>
    /\ calls = 0
    /\ last_call = NoCall
    /\ ScanIdle
    /\ CrawlIdle
    /\ IndexIdle

\* WikipediaArchiveSearcher.retrieve_article_xml(title)
retrieve_article_xml(title) ==
    LET results == SelectByTitle(index, title)
    IN  IF Len(results) = 0
        THEN /\ outcome' = Raised("ArticleNotFoundError", title)
             /\ last_call' = Call(title, FALSE, FALSE, FALSE)
             /\ UNCHANGED <<parser, rawdata, pos, retrieved_pages, span>>
        ELSE LET start_index == first_match(results)[1]
                 page_id == first_match(results)[2]
                 row_title == first_match(results)[3]
                 end_index == first_match(results)[4]
                 got == extract_indexed_range(archive, start_index, end_index)
             IN  IF got.raised
                 THEN /\ outcome' = Raised("ValueError", "read length must be non-negative or -1")
                      /\ last_call' = Call(title, TRUE, FALSE, FALSE)
                      /\ UNCHANGED <<parser, rawdata, pos, retrieved_pages, span>>
                 ELSE /\ span' = got.span
                      /\ \E text \in got.texts :
                            IF ~text.ok
                            THEN /\ outcome' = Raised("OSError", "Invalid data stream")
                                 /\ last_call' = Call(title, TRUE, TRUE, FALSE)
                                 /\ UNCHANGED <<parser, rawdata, pos, retrieved_pages>>
                            ELSE LET xml_block == text.events
                                     fed == feed(new_scanner(parser, page_id), xml_block)
                                     page == Join(fed.final_lines)
                                 IN  /\ parser' = fed
                                     /\ rawdata' = xml_block
                                     /\ pos' = Len(xml_block) + 1
                                     /\ retrieved_pages' =
                                            [t \in DOMAIN retrieved_pages \cup {row_title} |->
                                                IF t = row_title THEN page ELSE retrieved_pages[t]]
                                     /\ outcome' = Returned(page)
                                     /\ last_call' = Call(title, TRUE, TRUE, TRUE)

Retrieve ==
    /\ running = "retrieve"
    /\ calls < MaxCalls
    /\ \E title \in Titles : retrieve_article_xml(title)
    /\ calls' = calls + 1
    /\ UNCHANGED <<frags, index, archive, running>>
    /\ UNCHANGED crawlVars
    /\ UNCHANGED idxVars

RetrNext == Retrieve

SpecRetrieve == RetrInit /\ [][RetrNext]_vars

(***************************************************************************)
(* The crawl (src/search/__main__.py) and ArticleNode                      *)
(***************************************************************************)
\* Most links in the whole link graph.
MaxEdges == 2
\* continue_search = counter < 150
AcceptanceBound == 150
\* Largest bound tried in place of 150, for runs in which the bound is reached.
MaxBound == 3

Bounds == (1..MaxBound) \cup {AcceptanceBound}
\* Most nodes popped before the model stops following a run.
MaxPops == 4

\* What SEED_LIST[0:2] is. <<"A">>: the slice is one article, a value the index can be
\* asked for; <<"A", "B">>: the slice is a list of two articles. Line 19 wraps the slice
\* in a list, so the loop body runs once, with the slice itself as artist.
SeedLists == {<<"A">>, <<"A", "B">>}

\* How lines 20-21 end. "raises": retrieve_article_xml(artist) raised; the slice is what
\* is looked up, a list of articles cannot be bound to the query
\* (sqlite3.ProgrammingError), a title without a row raises ArticleNotFoundError.
\* "raises_registering": line 20 returned and stored the page, then
\* ArticleNode.add_node(artist) raised (vars() of a value without __dict__, such as a
\* title that is a str). "returns": both lines returned.
SeedOutcomes == {"returns", "raises", "raises_registering"}

LinkLists == SeqsUpTo(Titles, MaxEdges)

\* Links of the graph g; an article without a link list (None) has none.
RECURSIVE TotalLinks(_, _)
TotalLinks(g, ts) ==
    IF ts = {} THEN 0
    ELSE LET t == CHOOSE x \in ts : TRUE
         IN  (IF g[t] = None THEN 0 ELSE Len(g[t].val)) + TotalLinks(g, ts \ {t})

Graphs ==
    {g \in [Titles -> {None} \cup {Some(l) : l \in LinkLists}] : TotalLinks(g, Titles) <= MaxEdges}

Linked(g, t) == \E u \in Titles : g[u] # None /\ \E j \in 1..Len(g[u].val) : g[u].val[j] = t

\* The initial contents of the classification cache; only titles some article links to
\* are ever looked up.
Caches(g) ==
    {c \in [Titles -> {None, Some(TRUE), Some(FALSE)}] : \A t \in Titles : c[t] # None => Linked(g, t)}

\* What extraction and classification of a link without a cached verdict come to.
\* "raise": retrieve_article_xml raised, no page is stored; "raise_classifying": the page
\* was stored, then retrieve_classification raised or still had no verdict (None).
FreshOutcomes == {"positive", "negative", "raise", "raise_classifying"}

\* A plausible slip: the except branch accepts the link.
fresh_verdict_accepts_on_raise(got) == got # "negative"

\* try: retrieve_article_xml(linked_article); cache.retrieve_classification(linked_article)
\* except: link_is_musical_artist = False
fresh_verdict(got) == IF got \in {"raise", "raise_classifying"} THEN FALSE ELSE got = "positive"

\* The WikipediaArticle of title t once processed: its link list is the parser's.
Article(g, t) == [title |-> t, outgoing_links |-> g[t]]

\* ArticleNode.update_article: a classmethod, it sets the attribute of the class.
update_article(art, a) == a

\* ArticleNode.add_node(a) on the stored nodes ns and the class attribute art.
add_node(ns, art, a) ==
    IF a.title \in ns
    THEN [node |-> a.title, nodes |-> ns, article |-> art]
    ELSE [node |-> a.title, nodes |-> ns \cup {a.title}, article |-> update_article(art, a)]

\* ArticleNode.add_edge
add_edge(es, source_article, dest_article) == es \cup {<<source_article, dest_article>>}

\* The text of the page of title t; the archive is not part of the crawl's state, so
\* the text is left symbolic.
CrawlPage(t) == "<page>" \o t \o "</page>"

\* The pages retrieve_article_xml can return for title t: the text of the page whose id
\* is the row's, or the empty text ("\n".join of no lines) when no page of the block
\* carries the row's id.
CrawlPages(t) == {CrawlPage(t), ""}

\* self.retrieved_pages[title] = page
StorePage(rp, t, page) == [u \in DOMAIN rp \cup {t} |-> IF u = t THEN page ELSE rp[u]]

\* A plausible slip: the last node of the queue is taken.
queue_pop_last(q) == [node |-> q[Len(q)], rest |-> SubSeq(q, 1, Len(q) - 1)]

\* search_queue.pop(0)
queue_pop(q) == [node |-> Head(q), rest |-> Tail(q)]

\* A plausible slip: the counter is stepped outside the else branch.
counter_after_any_positive(c, stored_classification, link_is_musical_artist) ==
    IF link_is_musical_artist THEN c + 1 ELSE c

\* counter+=(1 if link_is_musical_artist else 0), in the else branch only
counter_after(c, stored_classification, link_is_musical_artist) ==
    IF stored_classification = None /\ link_is_musical_artist THEN c + 1 ELSE c

\* A plausible slip: the loop flag is never cleared.
keeps_searching_always(c, b) == TRUE

\* continue_search = counter < 150, with the bound in place of 150
keeps_searching(c, b) == c < b

CrawlInit ==
    /\ running = "crawl"
    /\ seeds \in SeedLists
    /\ graph \in Graphs
    /\ bound \in Bounds
    /\ cache \in Caches(graph)
    /\ nodes = {}
    /\ article = None
    /\ search_queue = <<>>
    /\ enqueued = <<>>
    /\ counter = 0
    /\ edges = {}
    /\ continue_search = FALSE
    /\ current_article_node = None
    /\ links = <<>>
    /\ li = 1
    /\ child_node = None
    /\ pc = "seed"
    /\ popped = <<>>
    /\ examined = <<>>
    /\ extracted = <<>>
    /\ loop_states = {}
    /\ ScanIdle
    /\ RetrIdle
    /\ IndexIdle

crawlInputs == <<seeds, graph, bound, running>>

\* What the rest of the run depends on when control is at the while test.
LoopState ==
    <<search_queue, counter, continue_search, cache, nodes, edges, article, child_node>>

\* Lines 19-30: the one pass of "for artist in [SEED_LIST[0:2]]" with artist the slice,
\* then the counter and the loop flag. The names counter and continue_search are not
\* bound before; 0 and FALSE stand for that.
SeedPass ==
    /\ pc = "seed"
    /\ \E got \in SeedOutcomes :
        IF got = "raises" \/ Len(seeds) # 1
        THEN /\ pc' = "failed"
             /\ UNCHANGED <<retrieved_pages, nodes, article, search_queue, enqueued, counter,
                            continue_search>>
        ELSE IF got = "raises_registering"
        THEN /\ \E page \in CrawlPages(seeds[1]) :
                    retrieved_pages' = StorePage(retrieved_pages, seeds[1], page)
             /\ pc' = "failed"
             /\ UNCHANGED <<nodes, article, search_queue, enqueued, counter, continue_search>>
        ELSE LET artist == seeds[1]
                 r == add_node(nodes, article, Article(graph, artist))
             IN  /\ \E page \in CrawlPages(artist) :
                        retrieved_pages' = StorePage(retrieved_pages, artist, page)
                 /\ nodes' = r.nodes
                 /\ article' = r.article
                 /\ search_queue' = Append(search_queue, r.node)
                 /\ enqueued' = Append(enqueued, r.node)
                 /\ counter' = Len(search_queue) + 1
                 /\ continue_search' = TRUE
                 /\ pc' = "loop"
    /\ UNCHANGED <<cache, edges, current_article_node, links, li, child_node, popped,
                   examined, extracted, loop_states>>
    /\ UNCHANGED crawlInputs /\ UNCHANGED scanVars
    /\ UNCHANGED <<index, archive, outcome, span, calls, last_call>>
    /\ UNCHANGED idxVars

\* The while test holds, a node is popped, and its links are a list.
Pop ==
    /\ pc = "loop"
    /\ Len(popped) < MaxPops
    /\ search_queue # <<>> /\ continue_search
    /\ article.outgoing_links # None
    /\ LET p == queue_pop(search_queue)
       IN  /\ current_article_node' = Some(p.node)
           /\ search_queue' = p.rest
           /\ popped' = Append(popped, p.node)
    /\ loop_states' = loop_states \cup {LoopState}
    /\ links' = article.outgoing_links.val
    /\ li' = 1
    /\ pc' = "links"
    /\ UNCHANGED <<cache, nodes, edges, article, counter, continue_search, child_node,
                   enqueued, examined, extracted>>
    /\ UNCHANGED crawlInputs /\ UNCHANGED scanVars /\ UNCHANGED retrVars
    /\ UNCHANGED idxVars

\* A plausible slip: the skip path recomputes the loop flag as the end of the loop body does.
PopSkip_recomputes_flag ==
    /\ pc = "loop"
    /\ Len(popped) < MaxPops
    /\ search_queue # <<>> /\ continue_search
    /\ article.outgoing_links = None
    /\ LET p == queue_pop(search_queue)
       IN  /\ current_article_node' = Some(p.node)
           /\ search_queue' = p.rest
           /\ popped' = Append(popped, p.node)
    /\ loop_states' = loop_states \cup {LoopState}
    /\ continue_search' = keeps_searching(counter, bound)
    /\ UNCHANGED <<cache, nodes, edges, article, counter, child_node,
                   links, li, pc, enqueued, examined, extracted>>
    /\ UNCHANGED crawlInputs /\ UNCHANGED scanVars /\ UNCHANGED retrVars
    /\ UNCHANGED idxVars

\* The while test holds, a node is popped, links is None: continue.
PopSkip ==
    /\ pc = "loop"
    /\ Len(popped) < MaxPops
    /\ search_queue # <<>> /\ continue_search
    /\ article.outgoing_links = None
    /\ LET p == queue_pop(search_queue)
       IN  /\ current_article_node' = Some(p.node)
           /\ search_queue' = p.rest
           /\ popped' = Append(popped, p.node)
    /\ loop_states' = loop_states \cup {LoopState}
    /\ UNCHANGED <<cache, nodes, edges, article, counter, continue_search, child_node,
                   links, li, pc, enqueued, examined, extracted>>
    /\ UNCHANGED crawlInputs /\ UNCHANGED scanVars /\ UNCHANGED retrVars
    /\ UNCHANGED idxVars

\* One pass of the for loop for a linked_article with a stored classification.
LinkCached ==
    /\ pc = "links"
    /\ li <= Len(links)
    /\ LET linked_article == links[li]
           stored_classification == cache[linked_article]
       IN  /\ stored_classification # None
           /\ examined' = Append(examined, <<current_article_node.val, linked_article>>)
           /\ counter' = counter_after(counter, stored_classification, stored_classification.val)
           /\ IF ~stored_classification.val
              THEN /\ li' = li + 1
                   /\ UNCHANGED <<edges, search_queue, enqueued, pc>>
              ELSE IF child_node = None
              THEN \* NameError: child_node is not bound
                   /\ pc' = "crashed"
                   /\ UNCHANGED <<edges, search_queue, enqueued, li>>
              ELSE /\ edges' = add_edge(edges, current_article_node.val, child_node.val)
                   /\ search_queue' = Append(search_queue, child_node.val)
                   /\ enqueued' = Append(enqueued, child_node.val)
                   /\ li' = li + 1
                   /\ UNCHANGED pc
    /\ UNCHANGED <<cache, nodes, article, continue_search, child_node, current_article_node,
                   links, popped, extracted, loop_states>>
    /\ UNCHANGED crawlInputs /\ UNCHANGED scanVars /\ UNCHANGED retrVars
    /\ UNCHANGED idxVars

\* One pass of the for loop for a linked_article without a stored classification.
LinkFresh ==
    /\ pc = "links"
    /\ li <= Len(links)
    /\ \E got \in FreshOutcomes :
        LET linked_article == links[li]
            stored_classification == cache[linked_article]
            link_is_musical_artist == fresh_verdict(got)
        IN  /\ stored_classification = None
            /\ examined' = Append(examined, <<current_article_node.val, linked_article>>)
            /\ extracted' = Append(extracted, linked_article)
            /\ \E page \in CrawlPages(linked_article) :
                    retrieved_pages' = IF got = "raise" THEN retrieved_pages
                                       ELSE StorePage(retrieved_pages, linked_article, page)
            /\ cache' = IF got \in {"raise", "raise_classifying"} THEN cache
                        ELSE [cache EXCEPT ![linked_article] = Some(link_is_musical_artist)]
            /\ counter' = counter_after(counter, stored_classification, link_is_musical_artist)
            /\ IF link_is_musical_artist
               THEN LET r == add_node(nodes, article, Article(graph, linked_article))
                    IN  /\ child_node' = Some(r.node)
                        /\ nodes' = r.nodes
                        /\ article' = r.article
                        /\ edges' = add_edge(edges, current_article_node.val, r.node)
                        /\ search_queue' = Append(search_queue, r.node)
                        /\ enqueued' = Append(enqueued, r.node)
               ELSE UNCHANGED <<child_node, nodes, article, edges, search_queue, enqueued>>
    /\ li' = li + 1
    /\ UNCHANGED <<continue_search, current_article_node, links, pc, popped, loop_states>>
    /\ UNCHANGED crawlInputs /\ UNCHANGED scanVars
    /\ UNCHANGED <<index, archive, outcome, span, calls, last_call>>
    /\ UNCHANGED idxVars

\* After the last link: continue_search = counter < bound.
EndOfLinks ==
    /\ pc = "links"
    /\ li > Len(links)
    /\ continue_search' = keeps_searching(counter, bound)
    /\ pc' = "loop"
    /\ UNCHANGED <<cache, nodes, edges, article, search_queue, counter, current_article_node,
                   links, li, child_node, popped, enqueued, examined, extracted, loop_states>>
    /\ UNCHANGED crawlInputs /\ UNCHANGED scanVars /\ UNCHANGED retrVars
    /\ UNCHANGED idxVars

\* The while test fails: the script ends.
Exit ==
    /\ pc = "loop"
    /\ ~(search_queue # <<>> /\ continue_search)
    /\ pc' = "done"
    /\ UNCHANGED <<cache, nodes, edges, article, search_queue, counter, continue_search,
                   current_article_node, links, li, child_node, popped, enqueued, examined,
                   extracted, loop_states>>
    /\ UNCHANGED crawlInputs /\ UNCHANGED scanVars /\ UNCHANGED retrVars
    /\ UNCHANGED idxVars

CrawlNext == SeedPass \/ Pop \/ PopSkip \/ LinkCached \/ LinkFresh \/ EndOfLinks \/ Exit

SpecCrawl == CrawlInit /\ [][CrawlNext]_vars

(***************************************************************************)
(* The index builder (src/data_stores/sqlite/__init__.py)                  *)
(***************************************************************************)
\* Most lines in the listing.
MaxLines == 2

\* A Python str, as its characters, and a Python int.
PyStr(cs) == [type |-> "str", chars |-> cs]
PyInt(n) == [type |-> "int", val |-> n]

\* The decimal digits, in code point order.
Digits == <<"0", "1", "2", "3", "4", "5", "6", "7", "8", "9">>
DigitOf(c) == CHOOSE d \in 0..9 : Digits[d + 1] = c

\* a < b for two str of digits: Python compares character by character, and a proper
\* prefix is the smaller one.
RECURSIVE StrLess(_, _)
StrLess(a, b) ==
    IF b = <<>> THEN FALSE
    ELSE IF a = <<>> THEN TRUE
    ELSE IF Head(a) # Head(b) THEN DigitOf(Head(a)) < DigitOf(Head(b))
    ELSE StrLess(Tail(a), Tail(b))

\* list(set_of_str) followed by .sort()
RECURSIVE SortedList(_)
SortedList(S) ==
    IF S = {} THEN <<>>
    ELSE LET m == CHOOSE x \in S : \A y \in S \ {x} : StrLess(x, y)
         IN  <<m>> \o SortedList(S \ {m})

\* s.split(":")
RECURSIVE Split(_)
Split(cs) ==
    IF \A k \in 1..Len(cs) : cs[k] # ":" THEN <<cs>>
    ELSE LET k == CHOOSE k \in 1..Len(cs) : cs[k] = ":" /\ \A j \in 1..(k - 1) : cs[j] # ":"
         IN  <<SubSeq(cs, 1, k - 1)>> \o Split(SubSeq(cs, k + 1, Len(cs)))

\* parse_colons(s)
parse_colons(s) ==
    LET portions == Split(s)
    IN  <<portions[1], portions[2], SubSeq(s, Len(portions[1]) + Len(portions[2]) + 3, Len(s))>>

\* A line of the listing.
Line(byte, id, title) == byte \o <<":">> \o id \o <<":">> \o title

ListedBytes == {<<"5">>, <<"9">>, <<"1", "0">>}
ListedIds == {<<"1">>, <<"2">>}
ListedTitles == {<<"A">>, <<"B", ":", "C">>}

Lines == {Line(b, i, t) : b \in ListedBytes, i \in ListedIds, t \in ListedTitles}

Listings == SeqsUpTo(Lines, MaxLines)

\* byte_values = list(set([val[0] for val in row_values])); byte_values.sort()
byte_values_of(rows) == SortedList({rows[k][1] : k \in 1..Len(rows)})

\* byte_dict[byte] = byte_values[min(len(byte_values) - 1, i + 1)], or -1 when that is
\* byte itself
byte_dict_of(byte_values) ==
    [byte \in {byte_values[k] : k \in 1..Len(byte_values)} |->
        LET i == CHOOSE k \in 1..Len(byte_values) : byte_values[k] = byte
            next == byte_values[IF i + 1 <= Len(byte_values) THEN i + 1 ELSE Len(byte_values)]
        IN  IF next = byte THEN PyInt(-1) ELSE PyStr(next)]

IndexInit ==
    /\ running = "index"
    /\ listing \in Listings
    /\ row_values = <<>>
    /\ byte_dict = <<>>
    /\ articles = None
    /\ bpc = "parse"
    /\ ScanIdle
    /\ RetrIdle
    /\ CrawlIdle

\* row_values.append(parse_colons(line)), for the next line
ParseLine ==
    /\ running = "index"
    /\ bpc = "parse"
    /\ Len(row_values) < Len(listing)
    /\ row_values' = Append(row_values, parse_colons(listing[Len(row_values) + 1]))
    /\ UNCHANGED <<listing, byte_dict, articles, bpc, running>>
    /\ UNCHANGED scanVars /\ UNCHANGED retrVars /\ UNCHANGED crawlVars

\* After the last line: byte_values and byte_dict.
NextBytes ==
    /\ running = "index"
    /\ bpc = "parse"
    /\ Len(row_values) = Len(listing)
    /\ byte_dict' = byte_dict_of(byte_values_of(row_values))
    /\ bpc' = "rows"
    /\ UNCHANGED <<listing, row_values, articles, running>>
    /\ UNCHANGED scanVars /\ UNCHANGED retrVars /\ UNCHANGED crawlVars

\* row.append(byte_dict[row[0]]), for the next row
AppendLastByte ==
    /\ running = "index"
    /\ bpc = "rows"
    /\ \E k \in 1..Len(row_values) :
        /\ Len(row_values[k]) = 3
        /\ \A j \in 1..(k - 1) : Len(row_values[j]) = 4
        /\ row_values' = [row_values EXCEPT ![k] = Append(@, byte_dict[@[1]])]
    /\ UNCHANGED <<listing, byte_dict, articles, bpc, running>>
    /\ UNCHANGED scanVars /\ UNCHANGED retrVars /\ UNCHANGED crawlVars

\* articles = pandas.DataFrame(row_values, ...); articles.to_sql("articles", conn)
StoreArticles ==
    /\ running = "index"
    /\ bpc = "rows"
    /\ \A k \in 1..Len(row_values) : Len(row_values[k]) = 4
    /\ articles' = Some(row_values)
    /\ bpc' = "done"
    /\ UNCHANGED <<listing, row_values, byte_dict, running>>
    /\ UNCHANGED scanVars /\ UNCHANGED retrVars /\ UNCHANGED crawlVars

IndexNext == ParseLine \/ NextBytes \/ AppendLastByte \/ StoreArticles

SpecIndex == IndexInit /\ [][IndexNext]_vars

(***************************************************************************)
(* The entry points together                                               *)
(***************************************************************************)
Init == ScanInit \/ RetrInit \/ CrawlInit \/ IndexInit
Next == ScanNext \/ RetrNext \/ CrawlNext \/ IndexNext
Spec == Init /\ [][Next]_vars

(***************************************************************************)
(* Properties of the scanner                                               *)
(***************************************************************************)
\* The text expected for one event of a document.
EventText(e) ==
    IF e.kind = "start" THEN StartTagLine(e.tag, e.attrs)
    ELSE IF e.kind = "data" THEN e.data
    ELSE EndTagLine(e.tag)

\* The expected result for document f: one line per event, in order.
DocLines(f) == [j \in 1..Len(Events(f)) |-> EventText(Events(f)[j])]

IsWellFormedBlock(fs) ==
    /\ Len(fs) > 0
    /\ \A j \in 1..Len(fs) : fs[j] \in CompleteDocs
    /\ DistinctIds(fs)

\* C1: for every block of N complete documents with pairwise distinct identifiers
\* (whatever the order of the fields inside a document), the scanner configured with the
\* k-th identifier has, at the end of the scan, exactly the re-serialized events of the
\* k-th document as its result, and before that nothing.
C1_SelectsKthDocument ==
    IsWellFormedBlock(frags) =>
        \A k \in 1..Len(frags) :
            parser.true_id = frags[k].id =>
                /\ parser.final_lines \in {<<>>, DocLines(frags[k])}
                /\ ScanEnded => parser.final_lines = DocLines(frags[k])

\* C3: once a result is snapshotted (DONE), no event changes the result, the buffer,
\* the observed identifier or the armed flag, and the scanner stays DONE.
C3_DoneIsFinal ==
    [][(running = "scan" /\ parser.final_lines # <<>>) => parser' = parser]_vars

\* C3 witness: the first piece matched and was snapshotted, and an unterminated page
\* with the same identifier was fed after it.
C3_Witness ==
    /\ running = "scan"
    /\ Len(frags) = 2
    /\ frags[1] \in CompleteDocs
    /\ frags[1].id = parser.true_id
    /\ frags[2] = Piece("unterminated", parser.true_id, parser.true_id)
    /\ ScanEnded
    /\ parser.final_lines = DocLines(frags[1])

\* The tags open after the events evs (an end tag closes the innermost open tag of its
\* name; an end tag with nothing to close is dropped).
RECURSIVE OpenTags(_)
OpenTags(evs) ==
    IF evs = <<>> THEN <<>>
    ELSE LET st == OpenTags(SubSeq(evs, 1, Len(evs) - 1))
             e == evs[Len(evs)]
         IN  IF e.kind = "start" THEN Append(st, e.tag)
             ELSE IF e.kind = "end" /\ st # <<>> /\ st[Len(st)] = e.tag
                  THEN SubSeq(st, 1, Len(st) - 1)
             ELSE st

\* An identifier field open under another tag inside a page.
NestedIdField(st) == Len(st) >= 3 /\ st[1] = "page" /\ st[Len(st)] = "id"

\* C4: the text of an identifier field nested under another tag inside the document
\* is never recorded as the observed identifier (and so never causes a match).
C4_NestedIdNeverRecorded ==
    [][(running = "scan" /\ NestedIdField(OpenTags(SubSeq(rawdata, 1, pos - 1))))
            => parser'.observed_id = parser.observed_id]_vars

Count(ss, x) == Cardinality({j \in 1..Len(ss) : ss[j] = x})

\* C5: a result holds exactly one document-boundary start tag, its first element,
\* and exactly one document-boundary end tag, its last element.
C5_OneBoundaryPair ==
    (running = "scan" /\ parser.final_lines # <<>>) =>
        LET r == parser.final_lines
        IN  /\ r[1] = StartTagLine("page", <<>>)
            /\ r[Len(r)] = EndTagLine("page")
            /\ Count(r, StartTagLine("page", <<>>)) = 1
            /\ Count(r, EndTagLine("page")) = 1

(***************************************************************************)
(* Properties of retrieve_article_xml                                      *)
(***************************************************************************)
\* C2: a call whose scan ended without a match reports a not-found error; it never
\* returns a document value (an empty text, or the partial buffer).
C2_NoMatchIsAnError ==
    (running = "retrieve" /\ outcome.kind = "return") => parser.final_lines # <<>>

(***************************************************************************)
(* Properties of the crawl                                                 *)
(***************************************************************************)
Range(q) == {q[j] : j \in 1..Len(q)}

\* The link the for loop is about to process, when there is one.
AtLink == running = "crawl" /\ pc = "links" /\ li <= Len(links)

\* Every cached verdict was produced during this run: the cache started empty.
CacheStartedEmpty == \A t \in Titles : cache[t] # None => t \in Range(extracted)

\* Seeds [A], links A -> B and B -> C, an empty cache at the start, bound 1, and a
\* classifier that is positive for B and negative for C whenever it is asked.
C6_Scenario ==
    /\ running = "crawl"
    /\ seeds = <<"A">>
    /\ graph["A"] = Some(<<"B">>)
    /\ graph["B"] = Some(<<"C">>)
    /\ bound = 1
    /\ CacheStartedEmpty
    /\ "B" \in Range(extracted) => cache["B"] = Some(TRUE)
    /\ "C" \in Range(extracted) => cache["C"] = Some(FALSE)

\* C6: in that scenario only A is ever popped, the loop flag is down once A's links are
\* done, the run ends with B accepted and exactly the edge A->B stored; no edge B->C is
\* stored, C is never enqueued, never looked up, and no link of C is examined.
C6_ChainStopsAfterB ==
    C6_Scenario =>
        /\ Len(popped) <= 1
        /\ (popped = <<"A">> /\ pc = "loop") => ~continue_search
        /\ pc # "crashed"
        /\ <<"B", "C">> \notin edges
        /\ "C" \notin Range(enqueued)
        /\ \A j \in 1..Len(examined) : examined[j][1] # "C" /\ examined[j][2] # "C"
        /\ pc = "done" =>
            /\ popped = <<"A">>
            /\ cache["B"] = Some(TRUE)
            /\ edges = {<<"A", "B">>}
            /\ enqueued = <<"A", "B">>
            /\ counter = 2

\* C6 witness: the scenario has run to its end.
C6_Witness ==
    /\ C6_Scenario
    /\ pc = "done"
    /\ edges = {<<"A", "B">>}
    /\ extracted = <<"B">>

\* C7: the counter never decreases; one step changes it by +1 exactly when it processes
\* a link without a cached verdict that is classified positive, and by 0 otherwise; a
\* link with a cached verdict changes nothing of the counter and triggers no extraction.
C7_CounterCountsFreshPositives ==
    [][(running = "crawl" /\ pc # "seed") =>
        /\ counter' >= counter
        /\ IF AtLink /\ cache[links[li]] = None /\ cache'[links[li]] = Some(TRUE)
           THEN counter' = counter + 1
           ELSE counter' = counter
        /\ (AtLink /\ cache[links[li]] # None) =>
               (counter' = counter /\ extracted' = extracted)]_vars

\* C7 witness: a link accepted once afresh was met again with its cached positive
\* verdict, and the counter stands at the seed plus that one acceptance.
C7_Witness ==
    /\ running = "crawl"
    /\ \E i, j \in 1..Len(examined) :
          /\ i < j
          /\ examined[i][2] = examined[j][2]
          /\ cache[examined[i][2]] = Some(TRUE)
    /\ Len(extracted) = 1
    /\ counter = 2
    /\ pc = "done"

\* The verdict of the link being processed in this step is positive.
PositiveLinkStep ==
    /\ AtLink
    /\ \/ cache[links[li]] = Some(TRUE)
       \/ cache[links[li]] = None /\ cache'[links[li]] = Some(TRUE)

\* C8: for every link L of the popped node N with a positive verdict, fresh or cached,
\* a node handle for L is at hand, the edge stored is N -> L and the node enqueued is L.
C8_EdgeAndEnqueueAreTheLink ==
    [][PositiveLinkStep =>
        /\ pc' # "crashed"
        /\ edges' = edges \cup {<<current_article_node.val, links[li]>>}
        /\ search_queue' = Append(search_queue, links[li])]_vars

\* C9: a node is popped only when the queue is non-empty and the counter is below the
\* bound, and a link is examined only when the counter is below the bound.
C9_WorkOnlyBelowBound ==
    [][running = "crawl" =>
        /\ popped' # popped => (search_queue # <<>> /\ counter < bound)
        /\ examined' # examined => counter < bound]_vars

\* C10: nodes are popped in the order they were enqueued (what was enqueued is what was
\* popped followed by what is still queued), and the links of the popped node are
\* processed one after the other in the order of the list read when it was popped.
C10_FifoAndLinkOrder ==
    running = "crawl" =>
        /\ enqueued = popped \o search_queue
        /\ pc = "links" =>
            /\ Len(examined) >= li - 1
            /\ \A j \in 1..(li - 1) :
                  examined[Len(examined) - (li - 1) + j] = <<current_article_node.val, links[j]>>

\* C10 witness: the seed's two links were accepted one after the other, so two nodes
\* were queued together; the one accepted first was popped first and the other is
\* still at the head of the queue.
C10_Witness ==
    /\ running = "crawl"
    /\ Len(popped) = 2
    /\ Len(enqueued) >= 3
    /\ search_queue # <<>>
    /\ popped[1] # popped[2]
    /\ enqueued[3] # enqueued[2]
    /\ popped[2] = enqueued[2]
    /\ Head(search_queue) = enqueued[3]
    /\ Len(examined) >= 2


(***************************************************************************)
(* Properties of the crawl: failures, skips, the popped node's links       *)
(***************************************************************************)
\* C11: when the extraction or classification of a link without a stored verdict raises
\* (no verdict gets stored), the link counts as negative: the counter, the nodes, the
\* edges and the queue are unchanged, and the for loop goes on with the next link of
\* the same node.
C11_RaiseIsNegative ==
    [][(running = "crawl" /\ AtLink /\ cache[links[li]] = None /\ cache' = cache) =>
            /\ counter' = counter
            /\ nodes' = nodes
            /\ edges' = edges
            /\ search_queue' = search_queue
            /\ enqueued' = enqueued
            /\ pc' = "links"
            /\ links' = links
            /\ li' = li + 1
            /\ current_article_node' = current_article_node]_vars

\* C11 witness: the first link of a node raised, the second link was processed after
\* it, and the crawl ended normally.
C11_Witness ==
    /\ running = "crawl"
    /\ pc = "done"
    /\ Len(examined) >= 2
    /\ examined[1][1] = examined[2][1]
    /\ extracted # <<>>
    /\ extracted[1] = examined[1][2]
    /\ cache[examined[1][2]] = None
    /\ examined[2][2] # examined[1][2]


(***************************************************************************)
(* Properties of retrieve_article_xml                                      *)
(***************************************************************************)
\* The rows of the index whose title is t, by position.
RowsOf(t) == {j \in 1..Len(index) : index[j][3] = t}

\* The first row of the index whose title is t, by position.
FirstRowOf(t) == index[CHOOSE j \in RowsOf(t) : \A k \in RowsOf(t) : j <= k]

\* The archive bytes from offset from up to, not including, offset to; to the end of
\* the file when to is -1.
ArchiveBytes(from, to) ==
    [j \in 1..((IF to = -1 THEN Len(archive) ELSE to) - from) |-> archive[from + j]]

\* C12: a call for a title no index row carries raises ArticleNotFoundError with that
\* title, reads nothing from the archive, runs no scan, and leaves retrieved_pages (and
\* the scanner and span of earlier calls) as they were.
C12_NoEntryRaises ==
    [][(running = "retrieve" /\ calls' = calls + 1) =>
            \A t \in Titles :
                (last_call'.title = Some(t) /\ RowsOf(t) = {}) =>
                    /\ outcome' = Raised("ArticleNotFoundError", t)
                    /\ ~last_call'.read
                    /\ ~last_call'.decompressed
                    /\ ~last_call'.scanned
                    /\ span' = span
                    /\ parser' = parser
                    /\ rawdata' = rawdata
                    /\ retrieved_pages' = retrieved_pages]_vars

\* C12 witness: after a call that returned a page, a call for a title without a row
\* raised, and the page of the first call is still the only entry of retrieved_pages.
C12_Witness ==
    /\ running = "retrieve"
    /\ calls = 2
    /\ index # <<>>
    /\ \E t \in Titles :
        /\ RowsOf(t) = {}
        /\ last_call = Call(t, FALSE, FALSE, FALSE)
        /\ outcome = Raised("ArticleNotFoundError", t)
    /\ span # <<>>
    /\ parser.final_lines # <<>>
    /\ DOMAIN retrieved_pages = {index[1][3]}
    /\ retrieved_pages[index[1][3]] = Join(parser.final_lines)


\* C13: a call for a title several index rows carry does not fail: it reads the span of
\* the first such row in row order and scans it with that row's page id; this holds
\* after every such call, so repeated calls use the same row.
C13_FirstRowIsUsed ==
    running = "retrieve" =>
        \A t \in Titles :
            (last_call.title = Some(t) /\ Cardinality(RowsOf(t)) > 1) =>
                /\ outcome.kind = "return"
                /\ last_call.decompressed
                /\ span = ArchiveBytes(FirstRowOf(t)[1], FirstRowOf(t)[4])
                /\ last_call.scanned
                /\ parser.true_id = FirstRowOf(t)[2]

\* What a call for title t can give on a searcher that has served no call yet, computed
\* from the archive and the index alone.
OutcomesOnNewSearcher(t) ==
    IF RowsOf(t) = {} THEN {Raised("ArticleNotFoundError", t)}
    ELSE LET row == FirstRowOf(t)
         IN  IF row[4] - row[1] < -1
             THEN {Raised("ValueError", "read length must be non-negative or -1")}
             ELSE {IF ~text.ok THEN Raised("OSError", "Invalid data stream")
                   ELSE Returned(Join(feed(NewParser(row[2]), text.events).final_lines)) :
                       text \in Decompress(ArchiveBytes(row[1], row[4]))}

\* C14: whatever calls came before it (returning or raising, for the same title or for
\* others), a call for title t ends as it does on a searcher that has served no call:
\* neither the scanner left by an earlier call nor retrieved_pages has a part in it.
C14_PrecedingCallsDoNotMatter ==
    running = "retrieve" =>
        \A t \in Titles : last_call.title = Some(t) => outcome \in OutcomesOnNewSearcher(t)

\* C14 witness: a call returned a page, then a call for another title returned another
\* page, while the first page is still in retrieved_pages.
C14_Witness ==
    /\ running = "retrieve"
    /\ calls = 2
    /\ outcome.kind = "return"
    /\ outcome.value # ""
    /\ \E t \in Titles, u \in Titles :
        /\ t # u
        /\ last_call = Call(t, TRUE, TRUE, TRUE)
        /\ DOMAIN retrieved_pages = {t, u}
        /\ retrieved_pages[u] # ""
        /\ retrieved_pages[u] # retrieved_pages[t]
        /\ retrieved_pages[t] = outcome.value


\* C20: a call that found a row hands the decompressor exactly the archive bytes from the
\* row's start offset up to, not including, its end offset when that is a real offset,
\* and from the start offset to the end of the file when it is -1, for start offsets
\* above 0 as for 0; no byte before the start offset is in the span.
C20_SpanIsTheIndexedRange ==
    (running = "retrieve" /\ last_call.title # None /\ RowsOf(last_call.title.val) # {}) =>
        LET row == FirstRowOf(last_call.title.val)
            start_offset == row[1]
            end_offset == row[4]
        IN  /\ last_call.decompressed
            /\ end_offset # -1 => Len(span) = end_offset - start_offset
            /\ end_offset = -1 => Len(span) = Len(archive) - start_offset
            /\ \A j \in 1..Len(span) : span[j] = archive[start_offset + j]

(***************************************************************************)
(* Properties of the scanner: the observed identifier                      *)
(***************************************************************************)
\* Event k of the block lies directly inside an identifier field.
InIdField(k) ==
    LET st == OpenTags(SubSeq(rawdata, 1, k - 1))
    IN  st # <<>> /\ st[Len(st)] = "id"

\* Event k of the block is a document-boundary start tag.
IsPageStart(k) == rawdata[k].kind = "start" /\ rawdata[k].tag = "page"

\* C15: while no result is snapshotted, (a) a document-boundary start tag leaves the
\* observed identifier empty, the armed flag off and the buffer holding that start tag
\* alone; (b) with no identifier recorded, text directly inside an identifier field is
\* recorded and nothing else is; (c) a recorded identifier is kept by every event up to
\* the next document-boundary start tag, text of later identifier fields included.
C15_FirstIdentifierIsKept ==
    [][(running = "scan" /\ pos <= Len(rawdata) /\ parser.final_lines = <<>>) =>
            /\ IsPageStart(pos) =>
                    /\ parser'.observed_id = None
                    /\ ~parser'.curr_tag_id
                    /\ parser'.lines = <<StartTagLine("page", rawdata[pos].attrs)>>
            /\ (~IsPageStart(pos) /\ parser.observed_id = None) =>
                    parser'.observed_id =
                        IF rawdata[pos].kind = "data" /\ InIdField(pos)
                        THEN Some(rawdata[pos].data) ELSE None
            /\ (~IsPageStart(pos) /\ parser.observed_id # None) =>
                    parser'.observed_id = parser.observed_id]_vars

\* C15 witness: inside a document other than the target, the text of a later identifier
\* field (the revision's) has just been read and the observed identifier still is the
\* different text of the first one.
C15_Witness ==
    /\ running = "scan"
    /\ pos > 1
    /\ rawdata[pos - 1].kind = "data"
    /\ InIdField(pos - 1)
    /\ parser.final_lines = <<>>
    /\ parser.observed_id # None
    /\ parser.observed_id # Some(rawdata[pos - 1].data)
    /\ parser.observed_id # Some(parser.true_id)


(***************************************************************************)
(* Properties of the crawl: whose links a popped node gets                 *)
(***************************************************************************)
\* C16: while the links of a popped node are processed, the list walked is that node's
\* own outgoing links, as the document parser gave them for its article, whatever
\* nodes were registered since it was enqueued.
C16_PoppedNodesOwnLinks ==
    (running = "crawl" /\ pc = "links") =>
        graph[current_article_node.val] = Some(links)


\* C17: popping a node whose link list reads as None (links is None) only removes the
\* node from the queue: the cache, the extractions, the counter, the nodes, the edges,
\* the enqueued nodes and the loop flag are unchanged, and control is back at the while
\* test for the next queued node.
C17_SkipChangesNothingElse ==
    [][(running = "crawl" /\ pc = "loop" /\ popped' # popped /\ article.outgoing_links = None) =>
            /\ search_queue' = Tail(search_queue)
            /\ popped' = Append(popped, Head(search_queue))
            /\ pc' = "loop"
            /\ UNCHANGED <<cache, extracted, examined, counter, nodes, edges, enqueued,
                           continue_search, article, child_node>>]_vars

\* C17 witness: the seed's two links were both accepted and queued; the second node
\* popped was skipped, nothing more was examined, and the other accepted node is still
\* queued for the next pass of the while loop.
C17_Witness ==
    /\ running = "crawl"
    /\ pc = "loop"
    /\ Len(popped) = 2
    /\ current_article_node = Some(popped[2])
    /\ article.outgoing_links = None
    /\ \A j \in 1..Len(examined) : examined[j][1] = popped[1]
    /\ Len(examined) = 2
    /\ search_queue # <<>>
    /\ continue_search
    /\ counter = 3


(***************************************************************************)
(* Termination of the crawl                                                *)
(***************************************************************************)
\* C18: the crawl terminates. Every pass of the while loop is decided by the program
\* state at the while test and by the classifier, so a crawl that terminates never is
\* at a passing while test in a program state in which the test passed before: from
\* such a state the same passes can be taken again without end, the queue never empty.
C18_CrawlTerminates ==
    (running = "crawl" /\ pc = "loop" /\ search_queue # <<>> /\ continue_search) =>
        LoopState \notin loop_states


(***************************************************************************)
(* Properties of the index builder                                         *)
(***************************************************************************)
\* The number a str of digits denotes.
RECURSIVE Num(_)
Num(cs) == IF cs = <<>> THEN 0 ELSE 10 * Num(SubSeq(cs, 1, Len(cs) - 1)) + DigitOf(cs[Len(cs)])

\* The start offsets of the listing, as numbers.
StartOffsets == {Num(parse_colons(listing[k])[1]) : k \in 1..Len(listing)}

\* C19: in the table built from a listing, the last_byte of every row is the smallest
\* start offset of the listing numerically above the row's first_byte, or -1 exactly
\* when the row's first_byte is the numerically largest start offset; so rows sharing a
\* first_byte share their last_byte.
C19_EndIsNextStartNumerically ==
    (running = "index" /\ bpc = "done") =>
        \A k \in 1..Len(articles.val) :
            LET row == articles.val[k]
                above == {o \in StartOffsets : o > Num(row[1])}
            IN  IF above = {} THEN row[4] = PyInt(-1)
                ELSE /\ row[4].type = "str"
                     /\ Num(row[4].chars) \in above
                     /\ \A o \in above : Num(row[4].chars) <= o

=============================================================================
